---- MODULE Spec2Model ----
(***************************************************************************)
(* The rain gauge station node (src/src/rain_gauge_station/main.py): the   *)
(* control loop of main(), the tipping-bucket interrupt handler and the    *)
(* MQTT session, as a state machine.  Temperatures are fixed-point         *)
(* hundredths of a degree Fahrenheit; time is in milliseconds.             *)
(***************************************************************************)
EXTENDS Integers, Sequences, FiniteSets, TLC

VARIABLES
    clock,                              \* real time elapsed, in ms
    boot,                               \* phase of the two clock sources at start
    nTicks,                             \* clock advances so far
    pc,                                 \* position of main()
    timestamp,                          \* main: timestamp
    last_heartbeat_time,                \* main: last_heartbeat_time
    prior_onboard_temperature_value,    \* main: prior_onboard_temperature_value
    prior_temperature_value,            \* main: prior_temperature_value
    client,                             \* global client
    boot_sent,                          \* global boot_sent
    unsent_messages,                    \* global unsent_messages
    rainfall_timestamps,                \* global rainfall_timestamps
    snapshot,                           \* publish_messages: unsent_messages[:]
    index,                              \* publish_messages: entries of the snapshot passed
    appended,                           \* log: every message appended to unsent_messages
    published,                          \* log: every queue message whose publish call returned
    captured,                           \* log: every tip appended to rainfall_timestamps
    nTips,                              \* interrupts fired so far
    statusLog,                          \* log: every publish call of a status message
    drained,                            \* log: every tip popped from rainfall_timestamps
    failedEntry,                        \* log: the entry whose publish failed, until the next attempt
    reconnectDue,                       \* log: a queue publish failed and connect_mqtt was not called since
    raised,                             \* the exception that ended the loop, if any
    raisedAt,                           \* the position that raised it (program errors only)
    call,                               \* the arguments of a function called on its own
    ret                                 \* and what it returned

vars == <<clock, boot, nTicks, pc, timestamp, last_heartbeat_time,
          prior_onboard_temperature_value, prior_temperature_value, client,
          boot_sent, unsent_messages, rainfall_timestamps, snapshot, index,
          appended, published, captured, nTips, statusLog, drained,
          failedEntry, reconnectDue, raised, raisedAt, call, ret>>

\* The variables of the clock, of main(), of the module, and the logs
clockVars == <<clock, boot, nTicks>>
mainVars == <<timestamp, last_heartbeat_time, prior_onboard_temperature_value,
              prior_temperature_value>>
flushVars == <<snapshot, index>>
logVars == <<appended, published, captured, statusLog, drained>>
errVars == <<raised, raisedAt>>
harnessVars == <<call, ret>>

---------------------------------------------------------------------------
(* Bounds of the model *)

\* Events of the environment in one run: clock advances, tips, readings
\* logged beyond the first one of each channel
MaxEvents == 2

\* Clock advances between calls of get_precise_timestamp called on its own
MaxElapses == 4

\* Entries queued when publish_messages(client) is called on its own, and tips
\* that arrive during the call
MaxQueue == 3
MaxCallTips == 1

\* Cycles of the loop when one channel is polled on its own
MaxPolls == 4

(* Program constants *)

heartbeat_interval == 300
retries == 10
delay == 3
MillisPerSecond == 1000
OnboardThreshold == 100
TemperatureThreshold == 25
None == -1

TicksPeriod == 2 ^ 30

OnboardTopic == "rain_gauge_station/sensor/onboard_temperature"
TemperatureTopic == "rain_gauge_station/sensor/temperature"
TipsTopic == "rain_gauge_station/sensor/rain_gauge_tips"
Channels == {OnboardTopic, TemperatureTopic}

(* Inputs of the model *)

ClockSteps == {700, 300000}
BootChoices == {[wallPhase |-> 0, ticks0 |-> 0],
                [wallPhase |-> 500, ticks0 |-> TicksPeriod - 1000]}
OnboardReadings == {7000, 7050, 7100}
TemperatureReadings == {6800, None}

\* Arguments of check_and_append_change called on its own
FilterCurrents == {None, 6900, 6910, 6975, 7000, 7025, 7090, 7100, 7110}
FilterPriors == {None, 7000, 7100}
FilterThresholds == {None, TemperatureThreshold, OnboardThreshold}

\* Readings of the onboard channel polled cycle after cycle
DriftReadings == {7000, 7030, 7060, 7090, 7100, 7130}

\* Arguments of connect_mqtt called on its own: retries, and the number of the
\* first attempt the broker accepts (0 or beyond retries: none)
RetryChoices == {0, 1, 2, 3, retries}
FirstOkChoices == 0..(retries + 1)

\* Time between two calls of get_precise_timestamp called on its own
TimestampSteps == {200, 700}

NoEntry == [topic |-> "", payload |-> <<>>, id |-> 0, tip |-> 0]
NoCall == [fn |-> "none"]

LoopPcs == {"top", "hb_pub", "hb_set", "hb_skip", "drain", "drain_pop",
            "poll_onboard", "poll_temp", "connect", "boot_pub", "publish",
            "pub_loop", "sleep"}

\* Where main() waits: time.sleep(5), and the heartbeat's publish call
WaitingPcs == {"sleep", "hb_set"}

---------------------------------------------------------------------------
(* The clock service *)

\* time.time(): wall-clock seconds
TimeAt(t, b) == (t + b.wallPhase) \div MillisPerSecond
TimeTime == TimeAt(clock, boot)

\* time.ticks_ms(): a millisecond counter that wraps
TicksAt(t, b) == (b.ticks0 + t) % TicksPeriod
TicksMs == TicksAt(clock, boot)

\* The millis of get_precise_timestamp(): time.ticks_ms() % 1000
Millis(ticks) == ticks % MillisPerSecond

\* get_precise_timestamp(): "<unix_time>.<millis:03d>" as the pair it prints
get_precise_timestamp == <<TimeTime, Millis(TicksMs)>>

\* Order of two timestamps as (unixSeconds, millis) pairs
TsLeq(a, b) == a[1] < b[1] \/ (a[1] = b[1] /\ a[2] <= b[2])

---------------------------------------------------------------------------
(* Messages *)

\* ujson.dumps({"timestamp": ts, "value": v})
ReadingPayload(ts, v) == <<"timestamp", ts, "value", v>>

\* ujson.dumps({"timestamp": ts})
TipPayload(ts) == <<"timestamp", ts>>

\* The tuple (topic, message). id numbers the appends and tip names the tip it
\* came from: neither is part of its value
Entry(topic, payload, tip) ==
    [topic |-> topic, payload |-> payload, id |-> Len(appended) + 1, tip |-> tip]

\* (topic, message) == (topic, message) of Python
SameBytes(a, b) == a.topic = b.topic /\ a.payload = b.payload

\* The index list.remove(x) removes: the first element equal to x (0: ValueError)
FirstEqual(q, m) ==
    IF \E i \in 1..Len(q) : SameBytes(q[i], m)
    THEN CHOOSE i \in 1..Len(q) :
            /\ SameBytes(q[i], m)
            /\ \A j \in 1..(i - 1) : ~SameBytes(q[j], m)
    ELSE 0

\* Every element equal to m removed, not only the first
RemoveAllEqual(q, m) == SelectSeq(q, LAMBDA e : ~SameBytes(e, m))

\* q.pop() in place of q.remove(m)
RemoveLast(q, m) == SubSeq(q, 1, Len(q) - 1)

\* q after q.remove(m)
Remove(q, m) ==
    LET i == FirstEqual(q, m)
    IN  SubSeq(q, 1, i - 1) \o SubSeq(q, i + 1, Len(q))

---------------------------------------------------------------------------
(* The change filter *)

Abs(x) == IF x < 0 THEN -x ELSE x

\* check_and_append_change raises TypeError: abs(None - prior)
FilterRaises(current_value, prior_value, change_threshold) ==
    /\ prior_value # None
    /\ change_threshold # None
    /\ current_value = None

\* The test written with > in place of >=
ShouldEnqueueStrict(current_value, prior_value, change_threshold) ==
    IF prior_value = None THEN TRUE
    ELSE IF change_threshold # None
         THEN Abs(current_value - prior_value) > change_threshold
         ELSE current_value # prior_value

\* The first reading compared like any other: nothing enqueued without a prior
ShouldEnqueueNeedsPrior(current_value, prior_value, change_threshold) ==
    /\ prior_value # None
    /\ IF change_threshold # None
       THEN Abs(current_value - prior_value) >= change_threshold
       ELSE current_value # prior_value

\* Whether check_and_append_change appends a message
ShouldEnqueue(current_value, prior_value, change_threshold) ==
    IF prior_value = None THEN TRUE
    ELSE IF change_threshold # None
         THEN Abs(current_value - prior_value) >= change_threshold
         ELSE current_value # prior_value

\* The first value kept as the prior for good
NewPriorKept(current_value, prior_value, change_threshold) ==
    IF prior_value = None THEN current_value ELSE prior_value

\* The last observed value kept as the prior, enqueued or not
NewPriorObserved(current_value, prior_value, change_threshold) == current_value

\* The value check_and_append_change returns
NewPrior(current_value, prior_value, change_threshold) ==
    IF ShouldEnqueue(current_value, prior_value, change_threshold)
    THEN current_value
    ELSE prior_value

\* A list of messages after check_and_append_change
FilterQueue(q, current_value, topic, ts, prior_value, change_threshold) ==
    IF ShouldEnqueue(current_value, prior_value, change_threshold)
    THEN Append(q, Entry(topic, ReadingPayload(ts, current_value), 0))
    ELSE q

---------------------------------------------------------------------------
(* The MQTT session and the status messages *)

\* What client.publish(topic, message) does: returns, or raises
PublishResults(c) == IF c = "None" THEN {"AttributeError"} ELSE {"ok", "OSError"}

\* except OSError as e
ExceptOSError(e) == e = "OSError"

\* except Exception as e
ExceptException(e) ==
    e \in {"AttributeError", "OSError", "ValueError", "TypeError", "MemoryError"}

\* The topic publish_status, publish_boot_status and publish_heartbeat publish to
StatusTopic(kind) ==
    IF kind = "boot" THEN "rain_gauge_station/status/boot"
    ELSE IF kind = "heartbeat" THEN "rain_gauge_station/status/heartbeat"
    ELSE "rain_gauge_station/status"

\* One publish call of publish_status, publish_boot_status or publish_heartbeat
StatusRecord(kind, ok) == [kind |-> kind, ok |-> ok, at |-> TimeTime]

\* connect_mqtt: "for attempt in range(retries)" when the broker first accepts
\* attempt number firstOk (0: never)
RECURSIVE ConnectLoop(_, _)
ConnectLoop(attempt, firstOk) ==
    IF attempt >= retries THEN [client |-> "None", attempts |-> attempt]
    ELSE IF attempt + 1 = firstOk THEN [client |-> "MQTTClient", attempts |-> attempt + 1]
    ELSE ConnectLoop(attempt + 1, firstOk)

connect_mqtt(firstOk) == ConnectLoop(0, firstOk)

\* The heartbeat test written with > in place of >=
HeartbeatDueStrict(now, last) == now - last > heartbeat_interval

\* time.time() - last_heartbeat_time >= heartbeat_interval
HeartbeatDue(now, last) == now - last >= heartbeat_interval

\* Where the heartbeat test sends the loop: if client: publish_heartbeat(client)
HeartbeatBranch(now, last, c) ==
    IF HeartbeatDue(now, last)
    THEN IF c # "None" THEN "hb_pub" ELSE "hb_skip"
    ELSE "drain"

---------------------------------------------------------------------------
(* The budget of the environment *)

\* The value a reading message carries
ValueOf(e) == e.payload[4]

\* Whether log[i] is the first reading of its channel that carries a number
FirstNumeric(log, i) ==
    /\ ValueOf(log[i]) # None
    /\ \A j \in 1..(i - 1) : log[j].topic = log[i].topic => ValueOf(log[j]) = None

\* Readings logged beyond the first number of each channel
ExtraReadings ==
    Cardinality({i \in 1..Len(appended) :
                    appended[i].topic \in Channels /\ ~FirstNumeric(appended, i)})

EventsLeft == MaxEvents - nTicks - nTips - ExtraReadings

\* A reading the model still has room to log
Fits(current_value, prior_value, change_threshold) ==
    ShouldEnqueue(current_value, prior_value, change_threshold)
        => ((prior_value = None /\ current_value # None) \/ EventsLeft > 0)

---------------------------------------------------------------------------

\* The module's globals and the logs before main() runs
Globals ==
    /\ clock = 0
    /\ boot \in BootChoices
    /\ nTicks = 0
    /\ timestamp = <<0, 0>>
    /\ last_heartbeat_time = 0
    /\ prior_onboard_temperature_value = None
    /\ prior_temperature_value = None
    /\ client = "None"
    /\ boot_sent = FALSE
    /\ unsent_messages = <<>>
    /\ rainfall_timestamps = <<>>
    /\ snapshot = <<>>
    /\ index = 0
    /\ appended = <<>>
    /\ published = <<>>
    /\ captured = <<>>
    /\ nTips = 0
    /\ statusLog = <<>>
    /\ drained = <<>>
    /\ failedEntry = NoEntry
    /\ reconnectDue = FALSE
    /\ raised = "none"
    /\ raisedAt = "none"

Init ==
    /\ Globals
    /\ pc = "start"
    /\ call = NoCall
    /\ ret = NoCall

---------------------------------------------------------------------------
(* The environment: time passes, the bucket tips, the operator interrupts *)

Tick(d) ==
    /\ pc \in WaitingPcs
    /\ EventsLeft > 0
    /\ clock' = clock + d
    /\ nTicks' = nTicks + 1
    /\ UNCHANGED <<boot, pc, mainVars, client, boot_sent, unsent_messages,
                   rainfall_timestamps, flushVars, logVars, nTips, failedEntry,
                   reconnectDue, errVars, harnessVars>>

\* The timestamp put at the head of the buffer
HandlerPrepend(q, ok) ==
    IF ok THEN <<[ts |-> get_precise_timestamp, id |-> nTips + 1]>> \o q ELSE q

\* rainfall_timestamps after the handler's try block; ok: the append did not raise
HandlerAppend(q, ok) ==
    IF ok THEN Append(q, [ts |-> get_precise_timestamp, id |-> nTips + 1]) ELSE q

\* rainfall_handler(pin), between any two steps of main() once the irq is set
rainfall_handler ==
    /\ pc \notin {"start", "done"}
    /\ EventsLeft > 0
    /\ \E ok \in BOOLEAN :
        /\ rainfall_timestamps' = HandlerAppend(rainfall_timestamps, ok)
        /\ captured' = IF rainfall_timestamps' # rainfall_timestamps
                       THEN Append(captured, [ts |-> get_precise_timestamp,
                                              id |-> nTips + 1,
                                              offline |-> client = "None"])
                       ELSE captured
    /\ nTips' = nTips + 1
    /\ UNCHANGED <<clockVars, pc, mainVars, client, boot_sent, unsent_messages,
                   flushVars, appended, published, statusLog, drained,
                   failedEntry, reconnectDue, errVars, harnessVars>>

\* The shutdown publish tried without the test of client
ShutdownLogAlways(log, c, r) == Append(log, StatusRecord("shutdown", r = "ok"))

\* The status log after "finally: if client: publish_status(client, "shutdown")"
ShutdownLog(log, c, r) ==
    IF c # "None" THEN Append(log, StatusRecord("shutdown", r = "ok")) ELSE log

\* An exception leaves the try block of main(): the finally block runs and
\* main() ends, its locals with it
Terminate(exc, at) ==
    /\ pc' = "done"
    /\ raised' = exc
    /\ raisedAt' = at
    /\ \E r \in PublishResults(client) :
        statusLog' = ShutdownLog(statusLog, client, r)
    /\ timestamp' = <<0, 0>>
    /\ last_heartbeat_time' = 0
    /\ prior_onboard_temperature_value' = None
    /\ prior_temperature_value' = None
    /\ snapshot' = <<>>
    /\ index' = 0

\* KeyboardInterrupt inside the try block of main()
KeyboardInterrupt ==
    /\ pc \in LoopPcs
    /\ Terminate("KeyboardInterrupt", "none")
    /\ UNCHANGED <<clockVars, client, boot_sent, unsent_messages,
                   rainfall_timestamps, appended, published, captured, nTips,
                   drained, failedEntry, reconnectDue, harnessVars>>

---------------------------------------------------------------------------
(* main() *)

\* connect_wifi at the start of main(), then the set-up before the loop
Start ==
    /\ pc = "start"
    /\ \E ok \in BOOLEAN :
        pc' = IF ok THEN "top" ELSE "done"
    /\ client' = "None"
    /\ boot_sent' = FALSE
    /\ prior_onboard_temperature_value' = None
    /\ prior_temperature_value' = None
    /\ last_heartbeat_time' = TimeTime
    /\ UNCHANGED <<clockVars, timestamp, unsent_messages, rainfall_timestamps,
                   flushVars, logVars, nTips, failedEntry, reconnectDue,
                   errVars, harnessVars>>

\* timestamp = get_precise_timestamp();
\* if time.time() - last_heartbeat_time >= heartbeat_interval: if client:
LoopTop ==
    /\ pc = "top"
    /\ timestamp' = get_precise_timestamp
    /\ pc' = HeartbeatBranch(TimeTime, last_heartbeat_time, client)
    /\ UNCHANGED <<clockVars, last_heartbeat_time,
                   prior_onboard_temperature_value, prior_temperature_value,
                   client, boot_sent, unsent_messages, rainfall_timestamps,
                   flushVars, logVars, nTips, failedEntry, reconnectDue,
                   errVars, harnessVars>>

\* publish_heartbeat(client): one publish call, its exception printed
publish_heartbeat ==
    /\ pc = "hb_pub"
    /\ \E r \in PublishResults(client) :
        statusLog' = Append(statusLog, StatusRecord("heartbeat", r = "ok"))
    /\ pc' = "hb_set"
    /\ UNCHANGED <<clockVars, mainVars, client, boot_sent, unsent_messages,
                   rainfall_timestamps, flushVars, appended, published,
                   captured, drained, nTips, failedEntry, reconnectDue,
                   errVars, harnessVars>>

\* last_heartbeat_time = time.time(), after the heartbeat or without one
HeartbeatSet ==
    /\ pc \in {"hb_set", "hb_skip"}
    /\ last_heartbeat_time' = TimeTime
    /\ pc' = "drain"
    /\ UNCHANGED <<clockVars, timestamp, prior_onboard_temperature_value,
                   prior_temperature_value, client, boot_sent, unsent_messages,
                   rainfall_timestamps, flushVars, logVars, nTips, failedEntry,
                   reconnectDue, errVars, harnessVars>>

\* while rainfall_timestamps:
DrainTest ==
    /\ pc = "drain"
    /\ pc' = IF rainfall_timestamps # <<>> THEN "drain_pop" ELSE "poll_onboard"
    /\ UNCHANGED <<clockVars, mainVars, client, boot_sent, unsent_messages,
                   rainfall_timestamps, flushVars, logVars, nTips, failedEntry,
                   reconnectDue, errVars, harnessVars>>

\* The element rainfall_timestamps.pop(0) returns
Popped(q) == Head(q)

\* The buffer cleared after one pop
AfterPopCleared(q) == <<>>

\* rainfall_timestamps after pop(0)
AfterPop(q) == Tail(q)

\* ts = rainfall_timestamps.pop(0); unsent_messages.append((topic, dumps({"timestamp": ts})))
DrainPop ==
    /\ pc = "drain_pop"
    /\ LET e == Popped(rainfall_timestamps)
           m == Entry(TipsTopic, TipPayload(e.ts), e.id)
       IN  /\ rainfall_timestamps' = AfterPop(rainfall_timestamps)
           /\ drained' = Append(drained, e)
           /\ unsent_messages' = Append(unsent_messages, m)
           /\ appended' = Append(appended, m)
    /\ pc' = "drain"
    /\ UNCHANGED <<clockVars, mainVars, client, boot_sent, flushVars,
                   published, captured, statusLog, nTips, failedEntry,
                   reconnectDue, errVars, harnessVars>>

\* current_onboard_temp = read_onboard_temperature(); check_and_append_change(..., 1.0)
PollOnboard ==
    /\ pc = "poll_onboard"
    /\ \E v \in OnboardReadings :
        /\ Fits(v, prior_onboard_temperature_value, OnboardThreshold)
        /\ unsent_messages' = FilterQueue(unsent_messages, v, OnboardTopic, timestamp,
                                          prior_onboard_temperature_value, OnboardThreshold)
        /\ appended' = FilterQueue(appended, v, OnboardTopic, timestamp,
                                   prior_onboard_temperature_value, OnboardThreshold)
        /\ prior_onboard_temperature_value' =
               NewPrior(v, prior_onboard_temperature_value, OnboardThreshold)
    /\ pc' = "poll_temp"
    /\ UNCHANGED <<clockVars, timestamp, last_heartbeat_time,
                   prior_temperature_value, client, boot_sent,
                   rainfall_timestamps, flushVars, published, captured,
                   statusLog, drained, nTips, failedEntry, reconnectDue,
                   errVars, harnessVars>>

\* current_temp = read_temperature(pin); check_and_append_change(..., 0.25)
PollTemperature ==
    /\ pc = "poll_temp"
    /\ \E v \in TemperatureReadings :
        IF FilterRaises(v, prior_temperature_value, TemperatureThreshold)
        THEN /\ Terminate("TypeError", pc)
             /\ UNCHANGED <<unsent_messages, appended>>
        ELSE /\ Fits(v, prior_temperature_value, TemperatureThreshold)
             /\ unsent_messages' = FilterQueue(unsent_messages, v, TemperatureTopic, timestamp,
                                               prior_temperature_value, TemperatureThreshold)
             /\ appended' = FilterQueue(appended, v, TemperatureTopic, timestamp,
                                        prior_temperature_value, TemperatureThreshold)
             /\ prior_temperature_value' =
                    NewPrior(v, prior_temperature_value, TemperatureThreshold)
             /\ pc' = "connect"
             /\ UNCHANGED <<timestamp, last_heartbeat_time,
                            prior_onboard_temperature_value, flushVars,
                            statusLog, errVars>>
    /\ UNCHANGED <<clockVars, client, boot_sent, rainfall_timestamps, published,
                   captured, drained, nTips, failedEntry, reconnectDue,
                   harnessVars>>

\* A connect in every cycle, session or not
AlwaysConnect(c) == TRUE

\* if client is None:
NeedsConnect(c) == c = "None"

\* if client is None: client = connect_mqtt(...); if client and not boot_sent:
Connect ==
    /\ pc = "connect"
    /\ IF NeedsConnect(client)
       THEN \E firstOk \in 0..retries :
               /\ client' = connect_mqtt(firstOk).client
               /\ pc' = IF client' # "None" /\ ~boot_sent THEN "boot_pub" ELSE "publish"
               /\ reconnectDue' = FALSE
       ELSE /\ pc' = "publish"
            /\ UNCHANGED <<client, reconnectDue>>
    /\ UNCHANGED <<clockVars, mainVars, boot_sent, unsent_messages,
                   rainfall_timestamps, flushVars, logVars, nTips, failedEntry,
                   errVars, harnessVars>>

\* boot_sent after publish_boot_status() returned; ok: its publish call returned
BootSentAfter(ok) == TRUE

\* publish_boot_status(); boot_sent = True
publish_boot_status ==
    /\ pc = "boot_pub"
    /\ \E r \in PublishResults(client) :
        /\ statusLog' = Append(statusLog, StatusRecord("boot", r = "ok"))
        /\ boot_sent' = BootSentAfter(r = "ok")
    /\ pc' = "publish"
    /\ UNCHANGED <<clockVars, mainVars, client, unsent_messages,
                   rainfall_timestamps, flushVars, appended, published,
                   captured, drained, nTips, failedEntry, reconnectDue,
                   errVars, harnessVars>>

\* publish_messages(): if not unsent_messages: return; else iterate unsent_messages[:]
PublishEnter ==
    /\ pc = "publish"
    /\ IF unsent_messages = <<>>
       THEN /\ pc' = "sleep"
            /\ UNCHANGED <<snapshot, index>>
       ELSE /\ snapshot' = unsent_messages
            /\ index' = 0
            /\ pc' = "pub_loop"
    /\ UNCHANGED <<clockVars, mainVars, client, boot_sent, unsent_messages,
                   rainfall_timestamps, logVars, nTips, failedEntry,
                   reconnectDue, errVars, harnessVars>>

\* What the try block of publish_messages raises: the publish's exception, or remove's
TryResult(q, m, r) ==
    IF r # "ok" THEN r
    ELSE IF FirstEqual(q, m) = 0 THEN "ValueError" ELSE "ok"

\* The entry removed although its publish raised
QueueAfterTryDropping(q, m, r) == Remove(q, m)

\* The queue cleared when a publish raises
QueueAfterTryCleared(q, m, r) == IF TryResult(q, m, r) = "ok" THEN Remove(q, m) ELSE <<>>

\* unsent_messages after the try block on entry m
QueueAfterTry(q, m, r) == IF TryResult(q, m, r) = "ok" THEN Remove(q, m) ELSE q

\* The session kept after a failed publish
ClientKept(c) == c

\* client after the except block: client = None
ClientAfterExcept(c) == "None"

\* The loop going on after a caught exception, as without the break
ContinuesAlways == TRUE

\* Whether the loop goes on to the next entry after a caught exception (no: break)
ContinuesAfterExcept == FALSE

\* publish_messages(): one pass of the for loop over the snapshot
PublishStep ==
    /\ pc = "pub_loop"
    /\ LET m == snapshot[index + 1]
           last == index + 1 = Len(snapshot)
       IN  \E r \in PublishResults(client) :
            LET e == TryResult(unsent_messages, m, r)
            IN  /\ unsent_messages' = QueueAfterTry(unsent_messages, m, r)
                /\ published' = IF r = "ok" THEN Append(published, m) ELSE published
                /\ IF e = "ok"
                   THEN /\ pc' = IF last THEN "sleep" ELSE "pub_loop"
                        /\ index' = index + 1
                        /\ failedEntry' = NoEntry
                        /\ UNCHANGED <<mainVars, snapshot, client, reconnectDue,
                                       statusLog, errVars>>
                   ELSE IF ExceptException(e)
                   THEN /\ client' = ClientAfterExcept(client)
                        /\ pc' = IF ContinuesAfterExcept /\ ~last THEN "pub_loop" ELSE "sleep"
                        /\ index' = IF ContinuesAfterExcept THEN index + 1 ELSE index
                        /\ failedEntry' = m
                        /\ reconnectDue' = TRUE
                        /\ UNCHANGED <<mainVars, snapshot, statusLog, errVars>>
                   ELSE /\ Terminate(e, pc)
                        /\ UNCHANGED <<client, failedEntry, reconnectDue>>
    /\ UNCHANGED <<clockVars, boot_sent, rainfall_timestamps, appended,
                   captured, drained, nTips, harnessVars>>

\* blink_led(); time.sleep(5); publish_messages has returned and its locals are gone
Sleep ==
    /\ pc = "sleep"
    /\ pc' = "top"
    /\ snapshot' = <<>>
    /\ index' = 0
    /\ UNCHANGED <<clockVars, mainVars, client, boot_sent, unsent_messages,
                   rainfall_timestamps, logVars, nTips, failedEntry,
                   reconnectDue, errVars, harnessVars>>

---------------------------------------------------------------------------

MainStep ==
    \/ Start
    \/ LoopTop
    \/ publish_heartbeat
    \/ HeartbeatSet
    \/ DrainTest
    \/ DrainPop
    \/ PollOnboard
    \/ PollTemperature
    \/ Connect
    \/ publish_boot_status
    \/ PublishEnter
    \/ PublishStep
    \/ Sleep

Next ==
    \/ MainStep
    \/ KeyboardInterrupt
    \/ rainfall_handler
    \/ \E d \in ClockSteps : Tick(d)

Spec == Init /\ [][Next]_vars

\* connect_mqtt returns a session
ConnectSucceeds == Connect /\ client' # "None"

\* client.publish returns for a queued message
PublishSucceeds == PublishStep /\ published' # published

\* The steps of a run nobody interrupts
LiveNext ==
    \/ MainStep
    \/ rainfall_handler
    \/ \E d \in ClockSteps : Tick(d)

\* The loop keeps cycling; connects and publishes that are tried again and
\* again eventually succeed
LiveSpec ==
    /\ Init
    /\ [][LiveNext]_vars
    /\ WF_vars(MainStep)
    /\ SF_vars(ConnectSucceeds)
    /\ SF_vars(PublishSucceeds)

---------------------------------------------------------------------------
(* check_and_append_change called on its own *)

FilterInit ==
    /\ Globals
    /\ pc = "filter"
    /\ call \in [fn : {"check_and_append_change"},
                 current_value : FilterCurrents,
                 prior_value : FilterPriors,
                 change_threshold : FilterThresholds]
    /\ ret = NoCall

\* check_and_append_change(current_value, topic, timestamp, prior_value, change_threshold)
check_and_append_change ==
    /\ pc = "filter"
    /\ ret = NoCall
    /\ IF FilterRaises(call.current_value, call.prior_value, call.change_threshold)
       THEN /\ ret' = [fn |-> "raise", value |-> None]
            /\ UNCHANGED <<unsent_messages, appended>>
       ELSE /\ ret' = [fn |-> "return",
                       value |-> NewPrior(call.current_value, call.prior_value,
                                          call.change_threshold)]
            /\ unsent_messages' = FilterQueue(unsent_messages, call.current_value,
                                              OnboardTopic, timestamp,
                                              call.prior_value, call.change_threshold)
            /\ appended' = FilterQueue(appended, call.current_value,
                                       OnboardTopic, timestamp,
                                       call.prior_value, call.change_threshold)
    /\ UNCHANGED <<clockVars, pc, mainVars, client, boot_sent,
                   rainfall_timestamps, flushVars, published, captured,
                   statusLog, drained, nTips, failedEntry, reconnectDue,
                   errVars, call>>

FilterNext == check_and_append_change

FilterSpec == FilterInit /\ [][FilterNext]_vars

---------------------------------------------------------------------------
(* get_precise_timestamp called on its own, again and again *)

ClockInit ==
    /\ Globals
    /\ pc = "clock"
    /\ call = NoCall
    /\ ret = [fn |-> "get_precise_timestamp", values |-> <<>>]

\* Time passes between two calls
Elapse(d) ==
    /\ pc = "clock"
    /\ nTicks < MaxElapses
    /\ clock' = clock + d
    /\ nTicks' = nTicks + 1
    /\ UNCHANGED <<boot, pc, mainVars, client, boot_sent, unsent_messages,
                   rainfall_timestamps, flushVars, logVars, nTips, failedEntry,
                   reconnectDue, errVars, harnessVars>>

\* The last two values of a sequence of results once r is added
LastTwo(values, r) ==
    IF values = <<>> THEN <<r>> ELSE <<values[Len(values)], r>>

\* One call of get_precise_timestamp(); ret keeps its result and the one before
CallTimestamp ==
    /\ pc = "clock"
    /\ ret' = [fn |-> "get_precise_timestamp",
               values |-> LastTwo(ret.values, get_precise_timestamp)]
    /\ UNCHANGED <<clockVars, pc, mainVars, client, boot_sent, unsent_messages,
                   rainfall_timestamps, flushVars, logVars, nTips, failedEntry,
                   reconnectDue, errVars, call>>

ClockNext ==
    \/ CallTimestamp
    \/ \E d \in TimestampSteps : Elapse(d)

ClockSpec == ClockInit /\ [][ClockNext]_vars

---------------------------------------------------------------------------
(* connect_mqtt called on its own, attempt by attempt *)

ConnectInit ==
    /\ Globals
    /\ pc = "mqtt"
    /\ call \in [fn : {"connect_mqtt"}, retries : RetryChoices,
                 firstOk : FirstOkChoices]
    /\ ret = [fn |-> "running", client |-> "None", attempts |-> 0]

\* The loop run once more than range(R) does
MoreAttemptsInclusive(made, R) == made <= R

\* for attempt in range(R): another attempt follows the ones made
MoreAttempts(made, R) == made < R

\* One pass of the for loop: client.connect() returns, or raises and
\* time.sleep(delay) follows
ConnectAttempt ==
    /\ pc = "mqtt"
    /\ ret.fn = "running"
    /\ MoreAttempts(ret.attempts, call.retries)
    /\ IF ret.attempts + 1 = call.firstOk
       THEN /\ ret' = [fn |-> "return", client |-> "MQTTClient",
                       attempts |-> ret.attempts + 1]
            /\ UNCHANGED clock
       ELSE /\ ret' = [fn |-> "running", client |-> "None",
                       attempts |-> ret.attempts + 1]
            /\ clock' = clock + delay * MillisPerSecond
    /\ UNCHANGED <<boot, nTicks, pc, mainVars, client, boot_sent,
                   unsent_messages, rainfall_timestamps, flushVars, logVars,
                   nTips, failedEntry, reconnectDue, errVars, call>>

\* return None, after the loop
ConnectGiveUp ==
    /\ pc = "mqtt"
    /\ ret.fn = "running"
    /\ ~MoreAttempts(ret.attempts, call.retries)
    /\ ret' = [fn |-> "return", client |-> "None", attempts |-> ret.attempts]
    /\ UNCHANGED <<clockVars, pc, mainVars, client, boot_sent,
                   unsent_messages, rainfall_timestamps, flushVars, logVars,
                   nTips, failedEntry, reconnectDue, errVars, call>>

ConnectNext == ConnectAttempt \/ ConnectGiveUp

ConnectSpec == ConnectInit /\ [][ConnectNext]_vars

---------------------------------------------------------------------------
(* The sensor client (src/sensor/client/main.py): its change filter *)

ClientTemperatureTopic == "rain_gauge_1/sensors/temperature"

\* Whether the client's check_and_append_change appends a message: the first
\* test enqueues every reading that differs from the prior; the threshold is
\* only looked at for a reading equal to it, with TypeError passed over
ClientShouldEnqueue(current_value, prior_value, change_threshold) ==
    IF prior_value = None \/ current_value # prior_value THEN TRUE
    ELSE IF change_threshold # None
         THEN IF current_value = None THEN FALSE
              ELSE Abs(current_value - prior_value) >= change_threshold
         ELSE current_value # prior_value

\* The value the client's check_and_append_change returns
ClientNewPrior(current_value, prior_value, change_threshold) ==
    IF ClientShouldEnqueue(current_value, prior_value, change_threshold)
    THEN current_value
    ELSE prior_value

\* A list of messages after the client's check_and_append_change
ClientFilterQueue(q, current_value, topic, ts, prior_value, change_threshold) ==
    IF ClientShouldEnqueue(current_value, prior_value, change_threshold)
    THEN Append(q, Entry(topic, ReadingPayload(ts, current_value), 0))
    ELSE q

ClientFilterInit ==
    /\ Globals
    /\ pc = "client_filter"
    /\ call \in [fn : {"client.check_and_append_change"},
                 current_value : FilterCurrents,
                 prior_value : FilterPriors,
                 change_threshold : FilterThresholds]
    /\ ret = NoCall

\* check_and_append_change(function, topic, timestamp, prior_value, change_threshold)
\* of the client, function() returning call.current_value
client_check_and_append_change ==
    /\ pc = "client_filter"
    /\ ret = NoCall
    /\ ret' = [fn |-> "return",
               value |-> ClientNewPrior(call.current_value, call.prior_value,
                                        call.change_threshold)]
    /\ unsent_messages' = ClientFilterQueue(unsent_messages, call.current_value,
                                            ClientTemperatureTopic, timestamp,
                                            call.prior_value, call.change_threshold)
    /\ appended' = ClientFilterQueue(appended, call.current_value,
                                     ClientTemperatureTopic, timestamp,
                                     call.prior_value, call.change_threshold)
    /\ UNCHANGED <<clockVars, pc, mainVars, client, boot_sent,
                   rainfall_timestamps, flushVars, published, captured,
                   statusLog, drained, nTips, failedEntry, reconnectDue,
                   errVars, call>>

ClientFilterNext == client_check_and_append_change

ClientFilterSpec == ClientFilterInit /\ [][ClientFilterNext]_vars

---------------------------------------------------------------------------
(* publish_messages(client) of src/sensor/client/main.py and of            *)
(* src/sensor_poc/client/main.py, called on its own                        *)

PocTipsTopic == "sensor/bucket_tip"

\* The timestamps of the tips queued before the call
QueuedStamps == {<<0, 0>>, <<0, 5>>}

\* A queue of tips with the given timestamps, numbered in order of their append
QueueOfTips(stamps) ==
    [i \in 1..Len(stamps) |->
        [topic |-> PocTipsTopic, payload |-> TipPayload(stamps[i]),
         id |-> i, tip |-> 0]]

ClientFlushInit ==
    /\ clock = 0
    /\ boot \in BootChoices
    /\ nTicks = 0
    /\ pc = "client_publish"
    /\ timestamp = <<0, 0>>
    /\ last_heartbeat_time = 0
    /\ prior_onboard_temperature_value = None
    /\ prior_temperature_value = None
    /\ client \in {"None", "MQTTClient"}
    /\ boot_sent = FALSE
    /\ \E n \in 0..MaxQueue : \E stamps \in [1..n -> QueuedStamps] :
        /\ unsent_messages = QueueOfTips(stamps)
        /\ appended = QueueOfTips(stamps)
    /\ rainfall_timestamps = <<>>
    /\ snapshot = <<>>
    /\ index = 0
    /\ published = <<>>
    /\ captured = <<>>
    /\ nTips = 0
    /\ statusLog = <<>>
    /\ drained = <<>>
    /\ failedEntry = NoEntry
    /\ reconnectDue = FALSE
    /\ raised = "none"
    /\ raisedAt = "none"
    /\ call = [fn |-> "client.publish_messages"]
    /\ ret = NoCall

\* if not unsent_messages: return; else iterate unsent_messages[:]
ClientPublishEnter ==
    /\ pc = "client_publish"
    /\ IF unsent_messages = <<>>
       THEN /\ pc' = "client_done"
            /\ ret' = [fn |-> "return"]
            /\ UNCHANGED <<snapshot, index>>
       ELSE /\ snapshot' = unsent_messages
            /\ index' = 0
            /\ pc' = "client_loop"
            /\ UNCHANGED ret
    /\ UNCHANGED <<clockVars, mainVars, client, boot_sent, unsent_messages,
                   rainfall_timestamps, logVars, nTips, failedEntry,
                   reconnectDue, errVars, call>>

\* One pass of the for loop: the exception is printed and the loop goes on
ClientPublishStep ==
    /\ pc = "client_loop"
    /\ LET m == snapshot[index + 1]
           last == index + 1 = Len(snapshot)
       IN  \E r \in PublishResults(client) :
            /\ unsent_messages' = QueueAfterTry(unsent_messages, m, r)
            /\ published' = IF r = "ok" THEN Append(published, m) ELSE published
            /\ failedEntry' = IF TryResult(unsent_messages, m, r) = "ok"
                              THEN failedEntry ELSE m
            /\ index' = index + 1
            /\ pc' = IF last THEN "client_done" ELSE "client_loop"
            /\ ret' = IF last THEN [fn |-> "return"] ELSE ret
    /\ UNCHANGED <<clockVars, mainVars, client, boot_sent, rainfall_timestamps,
                   snapshot, appended, captured, statusLog, drained, nTips,
                   reconnectDue, errVars, call>>

\* rainfall_handler of sensor_poc, during the call: it appends its message to
\* unsent_messages itself
PocRainfallHandler ==
    /\ pc = "client_loop"
    /\ nTips < MaxCallTips
    /\ LET m == Entry(PocTipsTopic, TipPayload(get_precise_timestamp), nTips + 1)
       IN  /\ unsent_messages' = Append(unsent_messages, m)
           /\ appended' = Append(appended, m)
    /\ nTips' = nTips + 1
    /\ UNCHANGED <<clockVars, pc, mainVars, client, boot_sent,
                   rainfall_timestamps, flushVars, published, captured,
                   statusLog, drained, failedEntry, reconnectDue, errVars,
                   harnessVars>>

ClientFlushNext ==
    \/ ClientPublishEnter
    \/ ClientPublishStep
    \/ PocRainfallHandler

ClientFlushSpec == ClientFlushInit /\ [][ClientFlushNext]_vars

---------------------------------------------------------------------------
(* The RC-car bridge (src/src/rc_car/drive_bridge.py): on_message.         *)
(* Command values are fixed-point thousandths, pulse widths microseconds.  *)

STEER_GPIO == 13
THROTTLE_GPIO == 18
STEER_NEUTRAL == 1500
STEER_SPAN == 500
ESC_NEUTRAL == 1500
ESC_SPAN == 100
PerUnit == 1000

\* The values of {"value": v} received, from -3.0 to 3.0
CommandValues == {v * 250 : v \in -12..12}
CommandTopics == {"car/steer", "car/throttle"}

\* int(pulse) of a pulse given in thousandths of a microsecond
IntOf(x) == IF x >= 0 THEN x \div PerUnit ELSE -((-x) \div PerUnit)

Min(a, b) == IF a < b THEN a ELSE b
Max(a, b) == IF a > b THEN a ELSE b

\* max(-1.0, min(1.0, percent))
Clamp(percent) == Max(-PerUnit, Min(PerUnit, percent))

\* esc_throttle(percent): the pulse width it writes
esc_throttle(percent) == IntOf(ESC_NEUTRAL * PerUnit - Clamp(percent) * ESC_SPAN)

\* The steering branch of on_message: the pulse width it writes
SteerPulse(val) == IntOf(STEER_NEUTRAL * PerUnit - val * STEER_SPAN)

BridgeInit ==
    /\ Globals
    /\ pc = "bridge"
    /\ call \in [fn : {"on_message"}, topic : CommandTopics, value : CommandValues]
    /\ ret = NoCall

\* on_message(_, __, m) with a numeric value: one set_us on the topic's pin
on_message ==
    /\ pc = "bridge"
    /\ ret = NoCall
    /\ ret' = IF call.topic = "car/steer"
              THEN [fn |-> "set_us", pin |-> STEER_GPIO,
                    pulse |-> SteerPulse(call.value)]
              ELSE [fn |-> "set_us", pin |-> THROTTLE_GPIO,
                    pulse |-> esc_throttle(call.value)]
    /\ UNCHANGED <<clockVars, pc, mainVars, client, boot_sent, unsent_messages,
                   rainfall_timestamps, flushVars, logVars, nTips, failedEntry,
                   reconnectDue, errVars, call>>

BridgeNext == on_message

BridgeSpec == BridgeInit /\ [][BridgeNext]_vars

---------------------------------------------------------------------------
(* One thresholded channel of main() polled cycle after cycle *)

DriftInit ==
    /\ Globals
    /\ pc = "drift"
    /\ call = NoCall
    /\ ret = NoCall

\* timestamp = get_precise_timestamp(); current_onboard_temp = read_onboard_temperature();
\* prior_onboard_temperature_value = check_and_append_change(..., 1.0); time.sleep(5)
PollCycle ==
    /\ pc = "drift"
    /\ nTicks < MaxPolls
    /\ \E v \in DriftReadings :
        /\ call' = [fn |-> "check_and_append_change", current_value |-> v,
                    prior_value |-> prior_onboard_temperature_value,
                    change_threshold |-> OnboardThreshold]
        /\ unsent_messages' = FilterQueue(unsent_messages, v, OnboardTopic,
                                          get_precise_timestamp,
                                          prior_onboard_temperature_value,
                                          OnboardThreshold)
        /\ appended' = FilterQueue(appended, v, OnboardTopic,
                                   get_precise_timestamp,
                                   prior_onboard_temperature_value,
                                   OnboardThreshold)
        /\ prior_onboard_temperature_value' =
               NewPrior(v, prior_onboard_temperature_value, OnboardThreshold)
        /\ ret' = [fn |-> "return", value |-> prior_onboard_temperature_value']
    /\ timestamp' = get_precise_timestamp
    /\ clock' = clock + 5 * MillisPerSecond
    /\ nTicks' = nTicks + 1
    /\ UNCHANGED <<boot, pc, last_heartbeat_time, prior_temperature_value,
                   client, boot_sent, rainfall_timestamps, flushVars,
                   published, captured, statusLog, drained, nTips,
                   failedEntry, reconnectDue, errVars>>

DriftNext == PollCycle

DriftSpec == DriftInit /\ [][DriftNext]_vars

---------------------------------------------------------------------------
(* Properties of the outbound queue and the session *)

InSeq(q, e) == \E i \in 1..Len(q) : q[i] = e

TipMessages(q) == SelectSeq(q, LAMBDA e : e.topic = TipsTopic)

\* The flush of this cycle was cut short by a failed publish
FlushFailed == pc = "sleep" /\ index < Len(snapshot)

\* C1: every message ever appended to unsent_messages is either still in the
\* queue or in the log of successful publishes, never in neither (lost) and
\* never in both (removed before its publish returned, or kept after it)
C1_NoMessageLost ==
    \A i \in 1..Len(appended) :
        InSeq(unsent_messages, appended[i]) # InSeq(published, appended[i])

\* A publish failed, its message is still queued, and others were delivered
C1_Witness ==
    /\ FlushFailed
    /\ InSeq(unsent_messages, failedEntry)
    /\ published # <<>>
    /\ client = "None"

C4_TipsOnceInOrder ==
    /\ [i \in 1..Len(captured) |-> [ts |-> captured[i].ts, id |-> captured[i].id]]
           = drained \o rainfall_timestamps
    /\ LET t == TipMessages(appended)
       IN  /\ Len(t) = Len(drained)
           /\ \A i \in 1..Len(t) :
                /\ t[i].payload = TipPayload(drained[i].ts)
                /\ t[i].tip = drained[i].id

\* Two tips went through the buffer into the queue, the second one captured
\* after the first was popped or while it waited
C4_Witness ==
    /\ Len(drained) = 2
    /\ Len(TipMessages(appended)) = 2
    /\ drained[1].id < drained[2].id

C10_FlushNeverRaises ==
    /\ raisedAt \notin {"publish", "pub_loop"}
    /\ FlushFailed =>
        /\ InSeq(unsent_messages, snapshot[index + 1])
        /\ client = "None"

\* A flush without any session ever made: client.publish raised AttributeError
C10_Witness ==
    /\ FlushFailed
    /\ ~boot_sent
    /\ statusLog = <<>>
    /\ raised = "none"

---------------------------------------------------------------------------
(* Properties of the status messages *)

\* The publish calls of one kind of status message, in order
StatusCalls(kind) == SelectSeq(statusLog, LAMBDA r : r.kind = kind)

\* Those whose publish call returned
StatusDelivered(kind) == SelectSeq(statusLog, LAMBDA r : r.kind = kind /\ r.ok)

\* C6: once the first connect has succeeded exactly one boot message has been
\* published, never more than one is, and no queue message is published
\* before it
C6_ExactlyOneBoot ==
    /\ Len(StatusDelivered("boot")) <= 1
    /\ boot_sent => Len(StatusDelivered("boot")) = 1
    /\ published # <<>> => Len(StatusDelivered("boot")) = 1

\* time.time() when main() entered its loop
LoopStart == TimeAt(0, boot)

\* time.time() of the last heartbeat, or of the loop's start
LastHeartbeat ==
    LET h == StatusCalls("heartbeat")
    IN  IF h = <<>> THEN LoopStart ELSE h[Len(h)].at

\* A heartbeat was emitted in the cycle that read timestamp
EmittedThisCycle ==
    \E i \in 1..Len(statusLog) :
        statusLog[i].kind = "heartbeat" /\ statusLog[i].at >= timestamp[1]

---------------------------------------------------------------------------
(* Properties of the functions called on their own *)

\* C8: with a recorded numeric prior and a threshold supplied, the reading is
\* enqueued (one message carrying it, and it becomes the prior) iff
\* |current - prior| >= threshold, the bound included: with prior 70.00 and
\* threshold 1.00, 70.90 is suppressed and 71.00 is enqueued
C8_ThresholdInclusive ==
    (ret.fn = "return" /\ call.prior_value # None /\ call.change_threshold # None) =>
        LET far == Abs(call.current_value - call.prior_value) >= call.change_threshold
        IN  /\ far =>
                /\ Len(unsent_messages) = 1
                /\ ValueOf(unsent_messages[1]) = call.current_value
                /\ ret.value = call.current_value
            /\ ~far =>
                /\ unsent_messages = <<>>
                /\ ret.value = call.prior_value
            /\ (call.prior_value = 7000 /\ call.change_threshold = 100) =>
                /\ call.current_value = 7090 => unsent_messages = <<>>
                /\ call.current_value = 7100 => Len(unsent_messages) = 1

\* The reading exactly one threshold away from the prior was enqueued
C8_Witness ==
    /\ ret.fn = "return"
    /\ call.prior_value = 7000
    /\ call.change_threshold = 100
    /\ call.current_value = 7100
    /\ Len(unsent_messages) = 1
    /\ ret.value = 7100

\* C9: of two successive results of get_precise_timestamp the later one is
\* not smaller, as (unixSeconds, millis) pairs
C9_TimestampsMonotone ==
    (ret.fn = "get_precise_timestamp" /\ Len(ret.values) = 2) =>
        TsLeq(ret.values[1], ret.values[2])

---------------------------------------------------------------------------
(* Delivery *)

\* Tip number i was recorded while there was no session
RecordedOffline(i) == i <= Len(captured) /\ captured[i].offline

\* The message of tip number i was published
TipPublished(i) ==
    i <= Len(captured) /\ \E j \in 1..Len(published) : published[j].tip = captured[i].id

\* C3: while the loop keeps cycling, a tip recorded by rainfall_handler when
\* client was None is eventually published, given that connects and publishes
\* tried again and again eventually succeed
C3_OfflineTipDelivered ==
    \A i \in 1..MaxEvents :
        RecordedOffline(i) ~> (TipPublished(i) \/ pc = "done")

\* A tip recorded without a session was published after a later connect
C3_Witness ==
    /\ RecordedOffline(1)
    /\ TipPublished(1)
    /\ pc = "sleep"

---------------------------------------------------------------------------
(* Failures of the inputs *)

\* C11: a reading of an unexpected type (None) is skipped: it raises nothing
\* into the loop and no message carrying it is enqueued
C11_MalformedReadingSkipped ==
    /\ raised # "TypeError"
    /\ \A i \in 1..Len(appended) :
        appended[i].topic \in Channels => ValueOf(appended[i]) # None

\* C12: a failure of connect_wifi does not end the node: main() is only
\* ever left by an exception raised inside the loop
C12_WifiFailureNotFatal == pc = "done" => raised # "none"

---------------------------------------------------------------------------
(* Properties of the session *)

\* C13: connect_mqtt(retries=R) never makes more than R attempts; when every
\* attempt fails it makes exactly R, sleeps after each and returns None; when
\* the first success is attempt k <= R it makes exactly k and returns the
\* client; with the default R the loop agrees with connect_mqtt as main() uses it
C13_ConnectBounded ==
    /\ ret.attempts <= call.retries
    /\ ret.fn = "return" =>
        /\ IF call.firstOk \in 1..call.retries
           THEN /\ ret.client = "MQTTClient"
                /\ ret.attempts = call.firstOk
                /\ clock = delay * MillisPerSecond * (call.firstOk - 1)
           ELSE /\ ret.client = "None"
                /\ ret.attempts = call.retries
                /\ clock = delay * MillisPerSecond * call.retries
        /\ call.retries = retries =>
            connect_mqtt(call.firstOk) =
                [client |-> ret.client, attempts |-> ret.attempts]

\* The default ten attempts, the third of which succeeded
C13_Witness ==
    /\ ret.fn = "return"
    /\ call.retries = retries
    /\ call.firstOk = 3
    /\ ret.client = "MQTTClient"
    /\ ret.attempts = 3

\* C14: while a session is held the cycle passes the connect step without
\* calling connect_mqtt (client, the reconnect flag and the status log are
\* left alone and the flush follows), and the only step that gives a held
\* session up is a failed publish of a queued message
C14_SessionReused ==
    [][client # "None" =>
        /\ (pc = "connect" /\ pc' \notin {"connect", "done"}) =>
            /\ pc' = "publish"
            /\ UNCHANGED <<client, boot_sent, reconnectDue, statusLog>>
        /\ client' # client =>
            /\ pc = "pub_loop"
            /\ client' = "None"
            /\ failedEntry' # NoEntry]_vars

\* A later cycle reaches the connect step with the session of an earlier one
C14_Witness ==
    /\ pc = "connect"
    /\ client # "None"
    /\ boot_sent
    /\ published # <<>>
    /\ ~reconnectDue

---------------------------------------------------------------------------
(* Capacities and the path of the status messages *)

\* C15: unsent_messages never holds more messages than a capacity, here any
\* capacity up to the number of events the environment may produce plus one
C15_QueueCapped == Len(unsent_messages) <= MaxEvents + 1

\* C16: rainfall_timestamps never holds more undrained tips than a capacity,
\* here any capacity below the number of tips the environment may produce
C16_BufferCapped == Len(rainfall_timestamps) < MaxEvents

\* C17: a boot or heartbeat message whose publish failed is buffered in the
\* outbound queue: a message on its topic was appended to unsent_messages
C17_StatusMessagesQueued ==
    \A i \in 1..Len(statusLog) :
        (statusLog[i].kind \in {"boot", "heartbeat"} /\ ~statusLog[i].ok) =>
            \E j \in 1..Len(appended) :
                appended[j].topic = StatusTopic(statusLog[i].kind)

\* C19: right after a failed publish of a heartbeat or of the boot message
\* client is None
C19_AnyFailureDisconnects ==
    LET last == statusLog[Len(statusLog)]
    IN  /\ (pc = "hb_set" /\ ~last.ok) => client = "None"
        /\ (pc = "publish" /\ Len(statusLog) = 1 /\ published = <<>>
              /\ failedEntry = NoEntry /\ last.kind = "boot" /\ ~last.ok) =>
            client = "None"

---------------------------------------------------------------------------
(* Termination *)

\* C18 as stated: when the loop has been left by KeyboardInterrupt or by a
\* fatal exception, exactly one publish of a shutdown message was attempted
C18_ExactlyOneShutdown ==
    (pc = "done" /\ raised # "none") => Len(StatusCalls("shutdown")) = 1

\* C18, amended: when the loop is left by KeyboardInterrupt or by a fatal
\* exception, one publish of a shutdown message is attempted if a session is
\* held and none otherwise; it is attempted at no other time, it is the last
\* publish call, and once it was made or main() has ended nothing is published,
\* enqueued or retried
C18_ShutdownIfSession ==
    /\ [](/\ Len(StatusCalls("shutdown")) =
                IF pc = "done" /\ raised # "none" /\ client # "None" THEN 1 ELSE 0
          /\ StatusCalls("shutdown") # <<>> =>
                statusLog[Len(statusLog)].kind = "shutdown")
    /\ [][(StatusCalls("shutdown") # <<>> \/ pc = "done") =>
            UNCHANGED <<published, statusLog, unsent_messages>>]_vars

\* The loop was interrupted with a session held after messages were published,
\* and the one shutdown publish failed
C18_Witness ==
    /\ pc = "done"
    /\ raised = "KeyboardInterrupt"
    /\ published # <<>>
    /\ Len(StatusCalls("shutdown")) = 1
    /\ StatusDelivered("shutdown") = <<>>

---------------------------------------------------------------------------
(* The first reading of a channel *)

\* C20: with no prior value recorded check_and_append_change returns without
\* raising, whatever the threshold and the reading; it enqueues one message
\* carrying the reading and returns the reading as the new prior
C20_FirstReadingEnqueued ==
    (call.prior_value = None /\ ret # NoCall) =>
        /\ ret.fn = "return"
        /\ ret.value = call.current_value
        /\ Len(unsent_messages) = 1
        /\ unsent_messages[1].topic = OnboardTopic
        /\ unsent_messages[1].payload = ReadingPayload(timestamp, call.current_value)
        /\ appended = unsent_messages

\* A first reading was enqueued although a threshold was supplied
C20_Witness ==
    /\ call.prior_value = None
    /\ call.change_threshold = OnboardThreshold
    /\ call.current_value = 7000
    /\ ret.fn = "return"
    /\ ret.value = 7000
    /\ Len(unsent_messages) = 1

---------------------------------------------------------------------------
(* The sensor client *)

\* C21: in the sensor client, with a numeric prior and a threshold, a reading
\* closer to the prior than the threshold is not enqueued and the prior is
\* returned unchanged
C21_ClientBelowThresholdSuppressed ==
    (/\ ret.fn = "return"
     /\ call.prior_value # None
     /\ call.change_threshold # None
     /\ call.current_value # None
     /\ Abs(call.current_value - call.prior_value) < call.change_threshold) =>
        /\ unsent_messages = <<>>
        /\ ret.value = call.prior_value

\* What a sequence of messages is as values: (topic, message) pairs
Bytes(q) == [i \in 1..Len(q) |-> <<q[i].topic, q[i].payload>>]

\* The entries of the snapshot whose publish did not return, in their order
FailedOfSnapshot == SelectSeq(snapshot, LAMBDA e : ~InSeq(published, e))

\* The entries appended to the queue after the snapshot was taken
AppendedSinceSnapshot == SubSeq(appended, Len(snapshot) + 1, Len(appended))

\* C22: when publish_messages(client) of the sensor client returns, every
\* entry of the snapshot was tried once, and the queue is, as a sequence of
\* values, the snapshot's failed entries in their order followed by the
\* entries appended during the call
C22_ClientFlushKeepsFailed ==
    pc = "client_done" =>
        /\ index = Len(snapshot)
        /\ Bytes(unsent_messages) =
              Bytes(FailedOfSnapshot \o AppendedSinceSnapshot)

---------------------------------------------------------------------------
(* The RC-car bridge *)

\* C23: the pulse width written for a command lies in the documented range of
\* its pin: 1000 to 2000 us on the steering pin, 1400 to 1600 us on the
\* throttle pin
C23_PulseInRange ==
    ret.fn = "set_us" =>
        /\ ret.pin = STEER_GPIO => (ret.pulse >= 1000 /\ ret.pulse <= 2000)
        /\ ret.pin = THROTTLE_GPIO => (ret.pulse >= 1400 /\ ret.pulse <= 1600)

---------------------------------------------------------------------------
(* The flush, attempt by attempt *)

\* The last n elements of a sequence
LastN(q, n) == SubSeq(q, Len(q) - n + 1, Len(q))

---------------------------------------------------------------------------
(* The change filter inside the loop *)

\* The readings of a channel enqueued so far, in order
Reported(topic) == SelectSeq(appended, LAMBDA e : e.topic = topic)

\* The value of the most recently enqueued message of a channel, None if none
LastReported(topic) ==
    LET q == Reported(topic)
    IN  IF q = <<>> THEN None ELSE ValueOf(q[Len(q)])

\* C25: while main() runs, the prior held for a channel is the value of the
\* channel's most recently enqueued message (None if there is none); a step
\* that changes a prior enqueues exactly one message, and a poll that enqueues
\* nothing leaves the priors and unsent_messages unchanged
C25_PriorIsLastReported ==
    /\ [](pc \in LoopPcs =>
            /\ prior_onboard_temperature_value = LastReported(OnboardTopic)
            /\ prior_temperature_value = LastReported(TemperatureTopic))
    /\ [][pc' # "done" =>
            /\ (\/ prior_onboard_temperature_value' # prior_onboard_temperature_value
                \/ prior_temperature_value' # prior_temperature_value) =>
                    /\ Len(appended') = Len(appended) + 1
                    /\ Len(unsent_messages') = Len(unsent_messages) + 1
            /\ (pc \in {"poll_onboard", "poll_temp"} /\ appended' = appended) =>
                    UNCHANGED <<prior_onboard_temperature_value,
                                prior_temperature_value, unsent_messages>>]_vars

\* Both channels have reported, the onboard one a second time after a change
\* of a full threshold, and messages were published
C25_Witness ==
    /\ pc = "connect"
    /\ Len(Reported(OnboardTopic)) = 2
    /\ prior_onboard_temperature_value = 7100
    /\ prior_temperature_value = 6800
    /\ published # <<>>

---------------------------------------------------------------------------
(* The two contexts *)

\* C26: a step of rainfall_handler changes nothing but rainfall_timestamps,
\* which it leaves alone or extends by one entry at its tail; a step of
\* main() that changes rainfall_timestamps removes its head
C26_HandlerTouchesOnlyBuffer ==
    [][/\ nTips' # nTips =>
            /\ UNCHANGED <<unsent_messages, client, boot_sent, pc, mainVars,
                           flushVars, appended, published, statusLog,
                           failedEntry, reconnectDue, errVars>>
            /\ \/ rainfall_timestamps' = rainfall_timestamps
               \/ /\ Len(rainfall_timestamps') = Len(rainfall_timestamps) + 1
                  /\ SubSeq(rainfall_timestamps', 1, Len(rainfall_timestamps))
                        = rainfall_timestamps
       /\ (nTips' = nTips /\ rainfall_timestamps' # rainfall_timestamps) =>
            /\ rainfall_timestamps # <<>>
            /\ rainfall_timestamps' = Tail(rainfall_timestamps)]_vars

\* The handler fired during a flush, behind a tip that was still buffered
C26_Witness ==
    /\ pc = "pub_loop"
    /\ Len(rainfall_timestamps) = 2
    /\ unsent_messages # <<>>

---------------------------------------------------------------------------
(* Order of delivery *)

---------------------------------------------------------------------------
(* Drift *)

\* C28: two consecutive enqueued readings of the channel differ by at least
\* the threshold, and each reading is measured against the last enqueued
\* value: it is enqueued, and becomes the prior, exactly when its distance
\* from that value has reached the threshold, however small the steps were
C28_DriftReported ==
    LET R == Reported(OnboardTopic)
    IN  /\ \A i \in 1..(Len(R) - 1) :
              Abs(ValueOf(R[i + 1]) - ValueOf(R[i])) >= OnboardThreshold
        /\ (call # NoCall /\ call.prior_value # None) =>
              LET far == Abs(call.current_value - call.prior_value) >= OnboardThreshold
              IN  /\ far =>
                      /\ ValueOf(R[Len(R)]) = call.current_value
                      /\ ValueOf(R[Len(R) - 1]) = call.prior_value
                      /\ prior_onboard_temperature_value = call.current_value
                  /\ ~far =>
                      /\ ValueOf(R[Len(R)]) = call.prior_value
                      /\ prior_onboard_temperature_value = call.prior_value

\* After 70.00 was enqueued two readings were suppressed and 71.00 was enqueued
C28_Witness ==
    /\ nTicks = 4
    /\ Len(Reported(OnboardTopic)) = 2
    /\ ValueOf(appended[1]) = 7000
    /\ ValueOf(appended[2]) = 7100
    /\ call.current_value = 7100
    /\ call.prior_value = 7000


---------------------------------------------------------------------------
(* The cycle's end *)

\* C29: every cycle of the control loop that nobody interrupts reaches its
\* sleep, whatever connect_mqtt and client.publish do and with finitely many
\* tips: a cycle entered at the top of the while loop leads to time.sleep(5)
C29_CycleReachesSleep == (pc = "top") ~> (pc = "sleep")

\* A cycle was entered and ended main() before its sleep
C29_Witness ==
    /\ pc = "done"
    /\ raised = "TypeError"
    /\ raisedAt = "poll_temp"
    /\ nTips = MaxEvents
    /\ rainfall_timestamps = <<>>
====
